---- MODULE Spec2Model ----
(***************************************************************************)
(* Model of Alram/app.py: a Tk digital clock with one alarm.               *)
(*                                                                         *)
(* Time is the wall clock in whole seconds since midnight of day 0         *)
(* (datetime values with the microsecond field dropped).  The UI thread    *)
(* runs one handler at a time; a handler that opens a modal dialog         *)
(* (show_message_box) is suspended in a nested event loop, which is a      *)
(* frame on `stack`, and timer ticks and other events are served while it  *)
(* waits.  Playback threads run beside the UI thread.                      *)
(***************************************************************************)
EXTENDS Integers, Sequences, FiniteSets, TLC

\* ------------------------------------------------------------- bounds
\* Playback threads that may be alive at once.
MaxThreads == 2
\* Nested modal dialogs (suspended handlers) at once.
MaxDepth == 2

\* Clock values at which the application is started (day 0, 23:59:58).
StartTimes == {86398}
\* Clock values at which events are observed: the last seconds of day 0,
\* the first of day 1, the turn of its first minute, five minutes after
\* the last second of day 0, and a second in the first minute of day 2.
Instants == {86398, 86399, 86400, 86401, 86458, 86459, 86460,
             86699, 86700, 172805}
\* Seconds the clock may advance between the two datetime.now() reads
\* inside set_alarm.
ReadGaps == {0, 1}

\* ------------------------------------------------------------- datetime
None == -1

date(t) == t \div 86400
hour(t) == (t \div 3600) % 24
minute(t) == (t \div 60) % 60
second(t) == t % 60
\* seconds since midnight of a time-of-day <<h, m, s>>
tod(p) == p[1] * 3600 + p[2] * 60 + p[3]
\* datetime.combine(date, time)
combine(d, p) == d * 86400 + tod(p)

\* ------------------------------------------------------------- strptime
\* Strings are sequences of one-character strings.
Digits == <<"0", "1", "2", "3", "4", "5", "6", "7", "8", "9">>
IsDigit(c) == \E i \in 1..10 : Digits[i] = c
DigitVal(c) == (CHOOSE i \in 1..10 : Digits[i] = c) - 1

RECURSIVE Split(_, _, _)
\* the fields of s between the ":" separators
Split(s, cur, acc) ==
  IF s = <<>> THEN Append(acc, cur)
  ELSE IF Head(s) = ":" THEN Split(Tail(s), <<>>, Append(acc, cur))
  ELSE Split(Tail(s), Append(cur, Head(s)), acc)

FieldVal(f) ==
  IF Len(f) = 1 THEN DigitVal(f[1]) ELSE 10 * DigitVal(f[1]) + DigitVal(f[2])
\* a directive of the format matches one or two digits with value <= max
FieldOK(f, max) ==
  /\ Len(f) \in {1, 2}
  /\ \A i \in 1..Len(f) : IsDigit(f[i])
  /\ FieldVal(f) <= max

ValueError == <<>>
\* datetime.strptime(s, "%H:%M:%S").time(): %H matches 0..23, %M 0..59 and
\* %S 0..61; the datetime constructor then refuses a second above 59.
strptime(s) ==
  LET fs == Split(s, <<>>, <<>>) IN
  IF /\ Len(fs) = 3
     /\ FieldOK(fs[1], 23) /\ FieldOK(fs[2], 59) /\ FieldOK(fs[3], 61)
     /\ FieldVal(fs[3]) <= 59
  THEN <<FieldVal(fs[1]), FieldVal(fs[2]), FieldVal(fs[3])>>
  ELSE ValueError

Placeholder == <<"H", "H", ":", "M", "M", ":", "S", "S">>
\* Contents of the entry field when Set Alarm is pressed.
Inputs ==
  { Placeholder,
    <<"2", "5", ":", "9", "9", ":", "9", "9">>,
    <<"n", "o", "o", "n">>,
    <<"0", "0", ":", "0", "0", ":", "6", "0">>,
    <<"2", "3", ":", "5", "9", ":", "5", "9">>,
    <<"0", ":", "0", ":", "0">>,
    <<"0", "0", ":", "0", "0", ":", "5", "9">> }

\* ------------------------------------------------------------- state
VARIABLES
  now,              \* the wall clock
  ticked,           \* update_time already ran at this clock value
  pending,          \* update_time callbacks scheduled with label.after
  alarm_time,       \* global alarm_time: a clock value or None
  alarm_triggered,  \* global alarm_triggered
  alarm_thread,     \* global alarm_thread: a thread slot, 0 for None
  snooze_button,    \* the Snooze button is packed (visible)
  stop_button,      \* the Stop Alarm button is packed (visible)
  status,           \* text of status_label
  threads,          \* control point of each playback thread
  stack,            \* open show_message_box calls, innermost last
  grab              \* index in stack of the dialog holding the grab, 0 if none

vars == <<now, ticked, pending, alarm_time, alarm_triggered, alarm_thread,
          snooze_button, stop_button, status, threads, stack, grab>>

Slots == 1..MaxThreads

\* The part of the state the handlers read and write, as one record.
Cur ==
  [alarm_time |-> alarm_time, alarm_triggered |-> alarm_triggered,
   alarm_thread |-> alarm_thread, snooze_button |-> snooze_button,
   stop_button |-> stop_button, status |-> status, threads |-> threads]

Becomes(st) ==
  /\ alarm_time' = st.alarm_time
  /\ alarm_triggered' = st.alarm_triggered
  /\ alarm_thread' = st.alarm_thread
  /\ snooze_button' = st.snooze_button
  /\ stop_button' = st.stop_button
  /\ status' = st.status
  /\ threads' = st.threads

SetMsgToday == "Alarm set for today"
SetMsgTomorrow == "Alarm set for tomorrow"
RingMsg == "ALARM! ALARM! ALARM!"
InvalidMsg == "Invalid format! Use HH:MM:SS"
StoppedMsg == "Alarm stopped. Set a new alarm."
SnoozedMsg == "Snoozed"
AudioErrorMsg == "Audio Error"

snooze_minutes == 5

\* ------------------------------------------------------------- set_alarm
\* The target set_alarm resolves: `first` is the clock read that gives
\* today's date, `later` the read the candidate is compared with.
\* fault: the comparison of line 66 turned round
resolve_inverted(p, first, later) ==
  LET alarm_datetime_today == combine(date(first), p) IN
  IF alarm_datetime_today >= later
  THEN alarm_datetime_today + 86400
  ELSE alarm_datetime_today

resolve(p, first, later) ==
  LET alarm_datetime_today == combine(date(first), p) IN
  IF alarm_datetime_today <= later
  THEN alarm_datetime_today + 86400
  ELSE alarm_datetime_today

resolve_msg(p, first, later) ==
  IF combine(date(first), p) <= later THEN SetMsgTomorrow ELSE SetMsgToday

\* fault: the placeholder treated as "no alarm"
set_alarm_placeholder_resets(st) ==
  [st EXCEPT !.alarm_time = None, !.alarm_triggered = FALSE]

\* lines 51-53, up to the dialog: the placeholder writes nothing
set_alarm_placeholder(st) == st

\* fault: the except branch drops the stored target
set_alarm_invalid_clears(st) ==
  [st EXCEPT !.alarm_time = None]

\* lines 79-80, up to the dialog: a ValueError writes nothing
set_alarm_invalid(st) == st

\* fault: line 73 left out
set_alarm_parsed_keeps_triggered(p, first, later, st) ==
  [st EXCEPT !.alarm_time = resolve(p, first, later),
             !.status = resolve_msg(p, first, later),
             !.snooze_button = FALSE,
             !.stop_button = FALSE]

\* fault: a target already stored is kept
set_alarm_parsed_keeps_target(p, first, later, st) ==
  [st EXCEPT !.alarm_time = IF st.alarm_time = None
                            THEN resolve(p, first, later)
                            ELSE st.alarm_time,
             !.status = resolve_msg(p, first, later),
             !.alarm_triggered = FALSE,
             !.snooze_button = FALSE,
             !.stop_button = FALSE]

\* lines 62-75: the time-of-day p was parsed
set_alarm_parsed(p, first, later, st) ==
  [st EXCEPT !.alarm_time = resolve(p, first, later),
             !.status = resolve_msg(p, first, later),
             !.alarm_triggered = FALSE,
             !.snooze_button = FALSE,
             !.stop_button = FALSE]

\* set_alarm up to its return or to the dialog it opens: the state it
\* leaves and the dialog ("" for none).
set_alarm(s, first, later, st) ==
  IF s = Placeholder
  THEN [st |-> set_alarm_placeholder(st), dialog |-> "set_alarm_placeholder"]
  ELSE IF strptime(s) = ValueError
  THEN [st |-> set_alarm_invalid(st), dialog |-> "set_alarm_invalid"]
  ELSE [st |-> set_alarm_parsed(strptime(s), first, later, st), dialog |-> ""]

\* ------------------------------------------------------------- check_alarm
\* fault: line 95 with > for >=
due_strictly_after(t, st) ==
  /\ ~st.alarm_triggered
  /\ hour(t) = hour(st.alarm_time) /\ minute(t) = minute(st.alarm_time)
  /\ t > st.alarm_time

\* fault: no playback is started while another one runs
due_unless_playing(t, st) ==
  /\ ~st.alarm_triggered
  /\ hour(t) = hour(st.alarm_time) /\ minute(t) = minute(st.alarm_time)
  /\ t >= st.alarm_time
  /\ \A i \in Slots : st.threads[i] = "dead"

\* fault: line 95 left out, the minute alone decides
due_minute_only(t, st) ==
  /\ ~st.alarm_triggered
  /\ hour(t) = hour(st.alarm_time) /\ minute(t) = minute(st.alarm_time)

\* fault: line 94 without the test of alarm_triggered
due_ignores_triggered(t, st) ==
  /\ hour(t) = hour(st.alarm_time) /\ minute(t) = minute(st.alarm_time)
  /\ t >= st.alarm_time

\* fault: line 94 without the comparison of the minutes
due_hour_only(t, st) ==
  /\ ~st.alarm_triggered
  /\ hour(t) = hour(st.alarm_time)
  /\ t >= st.alarm_time

\* line 94-95: the alarm fires on this tick
due(t, st) ==
  /\ ~st.alarm_triggered
  /\ hour(t) = hour(st.alarm_time) /\ minute(t) = minute(st.alarm_time)
  /\ t >= st.alarm_time

\* fault: line 114 without the test of alarm_triggered
expired_ignores_triggered(t, st) ==
  /\ ~(~st.alarm_triggered
       /\ hour(t) = hour(st.alarm_time) /\ minute(t) = minute(st.alarm_time))
  /\ hour(t) = hour(st.alarm_time) /\ minute(t) > minute(st.alarm_time)

\* line 114: a ringing alarm whose minute has passed
expired(t, st) ==
  /\ ~(~st.alarm_triggered
       /\ hour(t) = hour(st.alarm_time) /\ minute(t) = minute(st.alarm_time))
  /\ st.alarm_triggered
  /\ hour(t) = hour(st.alarm_time) /\ minute(t) > minute(st.alarm_time)

FreeSlots(st) == {i \in Slots : st.threads[i] = "dead"}
NewThread(st) == CHOOSE i \in FreeSlots(st) : \A j \in FreeSlots(st) : i <= j

\* fault: the self-clear leaves the buttons packed (lines 119-120 left out)
check_alarm_clear_keeps_buttons(t, st) ==
  IF st.alarm_time = None THEN st
  ELSE IF due(t, st)
  THEN [st EXCEPT !.alarm_triggered = TRUE,
                  !.status = RingMsg,
                  !.alarm_thread = NewThread(st),
                  !.threads = [st.threads EXCEPT ![NewThread(st)] = "started"],
                  !.snooze_button = TRUE,
                  !.stop_button = TRUE]
  ELSE IF expired(t, st)
  THEN [st EXCEPT !.status = "",
                  !.alarm_time = None,
                  !.alarm_triggered = FALSE]
  ELSE st

\* fault: the self-clear leaves alarm_triggered set (line 122 left out)
check_alarm_clear_keeps_triggered(t, st) ==
  IF st.alarm_time = None THEN st
  ELSE IF due(t, st)
  THEN [st EXCEPT !.alarm_triggered = TRUE,
                  !.status = RingMsg,
                  !.alarm_thread = NewThread(st),
                  !.threads = [st.threads EXCEPT ![NewThread(st)] = "started"],
                  !.snooze_button = TRUE,
                  !.stop_button = TRUE]
  ELSE IF expired(t, st)
  THEN [st EXCEPT !.status = "",
                  !.snooze_button = FALSE,
                  !.stop_button = FALSE,
                  !.alarm_time = None]
  ELSE st

check_alarm(t, st) ==
  IF st.alarm_time = None THEN st
  ELSE IF due(t, st)
  THEN [st EXCEPT !.alarm_triggered = TRUE,
                  !.status = RingMsg,
                  !.alarm_thread = NewThread(st),
                  !.threads = [st.threads EXCEPT ![NewThread(st)] = "started"],
                  !.snooze_button = TRUE,
                  !.stop_button = TRUE]
  ELSE IF expired(t, st)
  THEN [st EXCEPT !.status = "",
                  !.snooze_button = FALSE,
                  !.stop_button = FALSE,
                  !.alarm_time = None,
                  !.alarm_triggered = FALSE]
  ELSE st

\* ------------------------------------------------------------- snooze, stop
\* fault: the snooze counted from the old target, not from now
snooze_from_target(t, st) ==
  [st EXCEPT !.snooze_button = FALSE,
             !.stop_button = FALSE,
             !.alarm_time = st.alarm_time + snooze_minutes * 60,
             !.alarm_triggered = FALSE,
             !.status = SnoozedMsg]

\* snooze at clock value t (lines 166-172)
snooze(t, st) ==
  [st EXCEPT !.snooze_button = FALSE,
             !.stop_button = FALSE,
             !.alarm_time = t + snooze_minutes * 60,
             !.alarm_triggered = FALSE,
             !.status = SnoozedMsg]

\* fault: line 158 left out
stop_alarm_keeps_target(st) ==
  [st EXCEPT !.snooze_button = FALSE,
             !.stop_button = FALSE,
             !.alarm_triggered = FALSE,
             !.status = StoppedMsg]

\* stop_alarm after its dialog has closed (lines 155-159)
stop_alarm(st) ==
  [st EXCEPT !.snooze_button = FALSE,
             !.stop_button = FALSE,
             !.alarm_triggered = FALSE,
             !.alarm_time = None,
             !.status = StoppedMsg]

\* ------------------------------------------------------------- play_alarm_sound
\* fault: the except branch also resets alarm_triggered
play_alarm_sound_resets(fn, tid, st) ==
  IF fn = "play_error"
  THEN [st EXCEPT !.threads = [st.threads EXCEPT ![tid] = "dead"],
                  !.alarm_triggered = FALSE,
                  !.status = AudioErrorMsg]
  ELSE [st EXCEPT !.threads = [st.threads EXCEPT ![tid] = "dead"]]

\* play_alarm_sound after its dialog has closed: the missing-file branch
\* returns (line 131), the except branch writes the status (line 140).
play_alarm_sound(fn, tid, st) ==
  IF fn = "play_error"
  THEN [st EXCEPT !.threads = [st.threads EXCEPT ![tid] = "dead"],
                  !.status = AudioErrorMsg]
  ELSE [st EXCEPT !.threads = [st.threads EXCEPT ![tid] = "dead"]]

\* ------------------------------------------------------------- show_message_box
Frame(fn, tid) == [fn |-> fn, tid |-> tid, open |-> TRUE]

\* What the caller of show_message_box does once wait_window returns.
after_dialog(f, st) ==
  CASE f.fn = "set_alarm_placeholder" -> st
    [] f.fn = "set_alarm_invalid" -> [st EXCEPT !.status = InvalidMsg]
    [] f.fn = "stop_alarm" -> stop_alarm(st)
    [] OTHER -> play_alarm_sound(f.fn, f.tid, st)

RECURSIVE unwind(_, _)
\* wait_window returns innermost first: every nested event loop whose
\* window is gone returns, and its caller runs on, until one still waits.
unwind(stk, st) ==
  IF stk = <<>> \/ stk[Len(stk)].open
  THEN [stack |-> stk, st |-> st]
  ELSE unwind(SubSeq(stk, 1, Len(stk) - 1), after_dialog(stk[Len(stk)], st))

\* grab_set moves the grab to the new dialog
OpenDialog(fn, tid) ==
  /\ Len(stack) < MaxDepth
  /\ stack' = Append(stack, Frame(fn, tid))
  /\ grab' = Len(stack) + 1

\* ------------------------------------------------------------- actions
\* fault: update_time does not schedule itself again
after_never(n) == n

\* label.after(1000, update_time), line 43: one more callback is scheduled
after(n) == n + 1

Init ==
  /\ now \in StartTimes
  /\ ticked = FALSE
  /\ pending = 1
  /\ alarm_time = None
  /\ alarm_triggered = FALSE
  /\ alarm_thread = 0
  /\ snooze_button = FALSE
  /\ stop_button = FALSE
  /\ status = ""
  /\ threads = [i \in Slots |-> "dead"]
  /\ stack = <<>>
  /\ grab = 0

\* The wall clock moves on, to a later instant.
ClockAdvance(t) ==
  /\ t > now
  /\ now' = t
  /\ ticked' = FALSE
  /\ UNCHANGED <<pending, alarm_time, alarm_triggered, alarm_thread,
                 snooze_button, stop_button, status, threads, stack, grab>>

\* update_time: the timer callback, at most once per second, also while a
\* dialog's nested event loop runs.  A tick that starts a playback thread
\* needs a free slot (MaxThreads bounds the threads alive at once).
update_time ==
  /\ ~ticked
  /\ pending >= 1
  /\ pending' = after(pending - 1)
  /\ (alarm_time # None /\ due(now, Cur)) => FreeSlots(Cur) # {}
  /\ Becomes(check_alarm(now, Cur))
  /\ ticked' = TRUE
  /\ UNCHANGED <<now, stack, grab>>

\* The Set Alarm button with s in the entry; the clock moves by g between
\* the handler's two reads of it.
SetAlarm(s, g) ==
  /\ grab = 0
  /\ now + g \in Instants
  /\ LET r == set_alarm(s, now, now + g, Cur) IN
       /\ Becomes(r.st)
       /\ IF r.dialog = ""
          THEN UNCHANGED <<stack, grab>>
          ELSE OpenDialog(r.dialog, 0)
  /\ now' = now + g
  /\ ticked' = (ticked /\ g = 0)
  /\ UNCHANGED pending

\* The Snooze button.
Snooze ==
  /\ grab = 0
  /\ snooze_button
  /\ Becomes(snooze(now, Cur))
  /\ UNCHANGED <<now, ticked, pending, stack, grab>>

\* The Stop Alarm button: stop_alarm opens its dialog first.
StopAlarm ==
  /\ grab = 0
  /\ stop_button
  /\ OpenDialog("stop_alarm", 0)
  /\ UNCHANGED <<now, ticked, pending, alarm_time, alarm_triggered, alarm_thread,
                 snooze_button, stop_button, status, threads>>

\* OK is pressed in dialog i: the window is destroyed, the grab it held is
\* released, and the nested loops that can return do.
CloseDialog(i) ==
  /\ i \in 1..Len(stack)
  /\ stack[i].open
  /\ grab \in {0, i}
  /\ LET r == unwind([stack EXCEPT ![i].open = FALSE], Cur) IN
       /\ stack' = r.stack
       /\ Becomes(r.st)
  /\ grab' = 0
  /\ UNCHANGED <<now, ticked, pending>>

\* The thread's show_message_box: Tk is entered from a thread that is not
\* the main one, so either the call is run by the main loop and the dialog
\* opens, or it raises and the thread ends.
ThreadDialog(i, fn) ==
  \/ /\ OpenDialog(fn, i)
     /\ threads' = [threads EXCEPT ![i] = "dialog"]
  \/ /\ threads' = [threads EXCEPT ![i] = "dead"]
     /\ UNCHANGED <<stack, grab>>

\* play_alarm_sound, lines 127-131: the sound file is missing.
PlayMissing(i) ==
  /\ threads[i] = "started"
  /\ ThreadDialog(i, "play_missing")
  /\ UNCHANGED <<now, ticked, pending, alarm_time, alarm_triggered, alarm_thread,
                 snooze_button, stop_button, status>>

\* play_alarm_sound, lines 133-136: playsound plays the file and returns.
PlayCompletes(i) ==
  /\ threads[i] = "started"
  /\ threads' = [threads EXCEPT ![i] = "dead"]
  /\ UNCHANGED <<now, ticked, pending, alarm_time, alarm_triggered, alarm_thread,
                 snooze_button, stop_button, status, stack, grab>>

\* play_alarm_sound, lines 133-140: playsound raises.
PlayRaises(i) ==
  /\ threads[i] = "started"
  /\ ThreadDialog(i, "play_error")
  /\ UNCHANGED <<now, ticked, pending, alarm_time, alarm_triggered, alarm_thread,
                 snooze_button, stop_button, status>>

Next ==
  \/ \E t \in Instants : ClockAdvance(t)
  \/ update_time
  \/ \E s \in Inputs, g \in ReadGaps : SetAlarm(s, g)
  \/ Snooze
  \/ StopAlarm
  \/ \E i \in 1..MaxDepth : CloseDialog(i)
  \/ \E i \in Slots : PlayMissing(i)
  \/ \E i \in Slots : PlayCompletes(i)
  \/ \E i \in Slots : PlayRaises(i)

Spec == Init /\ [][Next]_vars

\* ------------------------------------------------------------- claims
Valid(s) == s # Placeholder /\ strptime(s) # ValueError
ValidInputs == {s \in Inputs : Valid(s)}
InvalidInputs == {s \in Inputs : s # Placeholder /\ strptime(s) = ValueError}
\* the time-of-day each valid input parses to
Parsed == [s \in ValidInputs |-> strptime(s)]
\* a playback thread is started in this step
ThreadStarted ==
  /\ alarm_thread' \in Slots
  /\ threads[alarm_thread'] = "dead"
  /\ threads'[alarm_thread'] = "started"
\* a show_message_box call made by fn returns in this step
Returns(fn) ==
  \E i \in (Len(stack') + 1)..Len(stack) : stack[i].fn = fn
Waiting(fn) == \E i \in 1..Len(stack) : stack[i].fn = fn
Hidden == ~snooze_button /\ ~stop_button

\* C1 as stated: for every target T the ticks at T-1s, T and T+1s leave the
\* alarm armed, then ringing, then ringing with alarm_time unchanged.
C1_TickSequence_Original ==
  [][(update_time /\ alarm_time # None) =>
       /\ (~alarm_triggered /\ now = alarm_time - 1)
            => (~alarm_triggered' /\ alarm_time' = alarm_time)
       /\ (~alarm_triggered /\ now = alarm_time)
            => (alarm_triggered' /\ ThreadStarted /\ alarm_time' = alarm_time)
       /\ (alarm_triggered /\ now = alarm_time + 1)
            => (alarm_triggered' /\ alarm_time' = alarm_time)]_vars

\* C1 amended: the tick at T-1s never triggers and the tick at T sets
\* alarm_triggered and starts playback, for every target T; the tick at
\* T+1s keeps the alarm ringing with alarm_time unchanged when the second
\* of T is not 59.
C1_TickSequence ==
  [][(update_time /\ alarm_time # None) =>
       /\ (~alarm_triggered /\ now = alarm_time - 1)
            => (~alarm_triggered' /\ alarm_time' = alarm_time)
       /\ (~alarm_triggered /\ now = alarm_time)
            => (alarm_triggered' /\ ThreadStarted /\ alarm_time' = alarm_time)
       /\ (alarm_triggered /\ now = alarm_time + 1 /\ second(alarm_time) # 59)
            => (alarm_triggered' /\ alarm_time' = alarm_time)]_vars

\* the tick at T+1s has run and the alarm set for T still rings
C1_Witness ==
  /\ alarm_triggered /\ ticked /\ now = alarm_time + 1
  /\ second(alarm_time) # 59
  /\ status = RingMsg /\ snooze_button /\ stop_button

\* C2: the first tick at the start of the minute after T's minute clears a
\* ringing alarm: alarm_time None, alarm_triggered False, controls hidden.
C2_SelfClear ==
  [][(update_time /\ alarm_time # None /\ alarm_triggered
        /\ now = (alarm_time \div 60 + 1) * 60)
       => (alarm_time' = None /\ ~alarm_triggered' /\ Hidden')]_vars

\* C3: a valid input whose time-of-day is strictly after the current time
\* (the clock as set_alarm compares it) gives alarm_time = today's date
\* combined with that time-of-day, and alarm_triggered False.
C3_TodayTarget ==
  [][\A s \in ValidInputs, g \in ReadGaps :
       (now' = now + g /\ stack' = stack /\ threads' = threads
          /\ tod(Parsed[s]) > now' % 86400 /\ SetAlarm(s, g))
         => /\ alarm_time' = combine(date(now'), Parsed[s])
            /\ ~alarm_triggered']_vars

\* set_alarm has just stored a target later on the current day
C3_Witness ==
  /\ status = SetMsgToday /\ ~alarm_triggered
  /\ alarm_time # None /\ alarm_time > now /\ date(alarm_time) = date(now)

\* C4: a valid input whose time-of-day is at or before the current time
\* gives alarm_time = tomorrow's date combined with it, and after every
\* successful set_alarm the target is strictly in the future.
C4_TomorrowTarget ==
  [][\A s \in ValidInputs, g \in ReadGaps :
       (now' = now + g /\ stack' = stack /\ threads' = threads
          /\ SetAlarm(s, g))
         => /\ (tod(Parsed[s]) <= now' % 86400)
                 => alarm_time' = combine(date(now') + 1, Parsed[s])
            /\ alarm_time' > now']_vars

\* C5: an input that does not parse is rejected with the error dialog, and
\* neither the call nor its return after the dialog changes alarm_time,
\* alarm_triggered or the visibility of the controls.
C5_InvalidRejected ==
  [][/\ \A s \in InvalidInputs, g \in ReadGaps :
          (now' = now + g /\ Len(stack') = Len(stack) + 1
             /\ threads' = threads /\ SetAlarm(s, g))
            => /\ stack' = Append(stack, Frame("set_alarm_invalid", 0))
               /\ UNCHANGED <<alarm_time, alarm_triggered,
                              snooze_button, stop_button>>
     /\ (Returns("set_alarm_invalid") /\ ~Returns("stop_alarm"))
          => UNCHANGED <<alarm_time, alarm_triggered,
                         snooze_button, stop_button>>]_vars

\* an unparsable input was rejected and the alarm set before is still armed
C5_Witness ==
  /\ Waiting("set_alarm_invalid")
  /\ alarm_time # None /\ ~alarm_triggered
  /\ status \in {SetMsgToday, SetMsgTomorrow}

\* C6: the placeholder HH:MM:SS is rejected with the input-error dialog and
\* changes neither alarm_time nor alarm_triggered, at the call or at its
\* return.
C6_PlaceholderRejected ==
  [][/\ \A g \in ReadGaps :
          SetAlarm(Placeholder, g)
            => /\ stack' = Append(stack, Frame("set_alarm_placeholder", 0))
               /\ UNCHANGED <<alarm_time, alarm_triggered, status>>
     /\ (Returns("set_alarm_placeholder") /\ ~Returns("stop_alarm")
           /\ ~Returns("set_alarm_invalid") /\ ~Returns("play_error"))
          => UNCHANGED <<alarm_time, alarm_triggered, status>>]_vars

\* the placeholder was rejected while an alarm is ringing
C6_Witness ==
  /\ Waiting("set_alarm_placeholder")
  /\ alarm_time # None /\ alarm_triggered /\ status = RingMsg

\* C7: snooze while ringing sets alarm_time to the time of the call plus 5
\* minutes, alarm_triggered to False, and hides the controls.
C7_Snooze ==
  [][(Snooze /\ alarm_triggered)
       => /\ alarm_time' = now + 300
          /\ ~alarm_triggered'
          /\ Hidden']_vars

\* the alarm was snoozed some time after its target
C7_Witness ==
  /\ status = SnoozedMsg /\ ~alarm_triggered /\ Hidden
  /\ alarm_time = now + 300 /\ alarm_thread \in Slots

\* C8: when stop_alarm returns the state is idle (alarm_time None,
\* alarm_triggered False, controls hidden), and from idle nothing but a
\* successful set_alarm arms or triggers the alarm again.
C8_Stop ==
  [][/\ Returns("stop_alarm")
          => (alarm_time' = None /\ ~alarm_triggered' /\ Hidden')
     /\ (alarm_time = None /\ (alarm_time' # None \/ alarm_triggered'))
          => \E s \in ValidInputs, g \in ReadGaps : SetAlarm(s, g)]_vars

\* the alarm was stopped and a tick has run since the clock last moved
C8_Witness ==
  /\ status = StoppedMsg /\ stack = <<>> /\ ticked
  /\ alarm_time = None /\ ~alarm_triggered /\ Hidden

C10_PlayerFrame ==
  [][/\ (\E i \in Slots : PlayMissing(i) \/ PlayCompletes(i) \/ PlayRaises(i))
          => UNCHANGED <<alarm_time, alarm_triggered>>
     /\ ((Returns("play_missing") \/ Returns("play_error"))
           /\ ~Returns("stop_alarm"))
          => UNCHANGED <<alarm_time, alarm_triggered>>]_vars

\* playback raised, its dialog was closed, and the alarm still rings
C10_Witness ==
  /\ status = AudioErrorMsg /\ alarm_triggered /\ alarm_time # None
  /\ stack = <<>>

\* C11: whenever no handler is suspended in a dialog, the Snooze and Stop
\* Alarm buttons are visible exactly when alarm_triggered is True; they are
\* hidden at startup and after every set_alarm success, snooze, stop and
\* self-clear.
NoHandlerRunning ==
  \A i \in 1..Len(stack) :
    stack[i].fn \notin {"set_alarm_placeholder", "set_alarm_invalid", "stop_alarm"}
C11_ButtonsIffRinging ==
  /\ [](NoHandlerRunning =>
          /\ snooze_button <=> alarm_triggered
          /\ stop_button <=> alarm_triggered)
  /\ [][/\ (\E s \in ValidInputs, g \in ReadGaps :
               now' = now + g /\ stack' = stack /\ threads' = threads
                 /\ SetAlarm(s, g)) => Hidden'
        /\ Snooze => Hidden'
        /\ Returns("stop_alarm") => Hidden'
        /\ (update_time /\ alarm_triggered /\ ~alarm_triggered') => Hidden']_vars

\* a ringing alarm has cleared itself and the buttons are hidden again
C11_Witness ==
  /\ stack = <<>> /\ status = "" /\ alarm_thread \in Slots
  /\ alarm_time = None /\ ~alarm_triggered /\ Hidden

\* C12: the alarm never rings early: alarm_triggered becomes True only in a
\* tick whose clock value is at or after alarm_time and has alarm_time's
\* hour and minute, and that tick starts playback; a tick before the target
\* (an alarm resolved to tomorrow, on today's ticks of the same
\* hour:minute) does not fire.
C12_NeverEarly ==
  [][/\ (~alarm_triggered /\ alarm_triggered')
          => /\ update_time
             /\ alarm_time # None /\ alarm_time' = alarm_time
             /\ now >= alarm_time
             /\ hour(now) = hour(alarm_time)
             /\ minute(now) = minute(alarm_time)
             /\ ThreadStarted
     /\ (update_time /\ alarm_time # None /\ now < alarm_time)
          => (~alarm_triggered' /\ threads' = threads)]_vars

\* a tick ran in the hour:minute of an alarm resolved to tomorrow, and the
\* alarm is still armed
C12_Witness ==
  /\ status = SetMsgTomorrow /\ ~alarm_triggered /\ ticked
  /\ alarm_time # None /\ date(alarm_time) = date(now) + 1
  /\ hour(now) = hour(alarm_time) /\ minute(now) = minute(alarm_time)

\* C13: an armed alarm is not skipped when one tick is missed or delayed
\* around its target T: the first tick at or after T, which comes at T or
\* one second later, makes the alarm ring.
C13_MissedTickStillRings ==
  [][(update_time /\ alarm_time # None /\ ~alarm_triggered
        /\ now \in {alarm_time, alarm_time + 1})
       => alarm_triggered']_vars

\* the playback threads started in this step
Started == {i \in Slots : threads[i] = "dead" /\ threads'[i] = "started"}
Alive == {i \in Slots : threads[i] # "dead"}

\* C14: exactly one playback thread is started per armed-to-ringing
\* transition: the tick that sets alarm_triggered starts one thread, no tick
\* taken while the alarm rings or is idle starts one, and nothing else does.
C14_OneThreadPerRing ==
  [][/\ (~alarm_triggered /\ alarm_triggered') => Cardinality(Started) = 1
     /\ (update_time /\ (alarm_triggered \/ alarm_time = None))
          => Started = {}
     /\ Started # {} => (update_time /\ ~alarm_triggered /\ alarm_triggered')]_vars

\* the alarm rings, a tick ran after its target, and one thread is alive
C14_Witness ==
  /\ alarm_triggered /\ ticked /\ now > alarm_time
  /\ Cardinality(Alive) = 1 /\ alarm_thread \in Alive

\* C15: nothing prevents a second playback from starting while an earlier
\* one still runs: a tick that finds the armed alarm due starts a thread
\* whatever the other threads are doing and leaves them running, so two
\* playback threads can be alive at the same time.
C15_NoPlaybackMutex ==
  [][(update_time /\ alarm_time # None /\ ~alarm_triggered
        /\ now >= alarm_time
        /\ hour(now) = hour(alarm_time) /\ minute(now) = minute(alarm_time))
       => /\ Cardinality(Started) = 1
          /\ \A i \in Alive : threads'[i] = threads[i]]_vars

\* the re-armed alarm rings again while the first playback still runs
C15_Witness ==
  /\ alarm_triggered
  /\ Cardinality(Alive) >= 2
  /\ \A i \in Alive : threads[i] = "started"

\* C16: a successful set_alarm from any state replaces the previous target:
\* afterwards alarm_time is the entered time-of-day on today's or
\* tomorrow's date, alarm_triggered is False and the controls are hidden.
C16_SetAlarmReplaces ==
  [][\A s \in ValidInputs, g \in ReadGaps :
       (now' = now + g /\ stack' = stack /\ threads' = threads
          /\ SetAlarm(s, g))
         => /\ alarm_time' # None
            /\ alarm_time' % 86400 = tod(Parsed[s])
            /\ date(alarm_time') \in {date(now), date(now) + 1}
            /\ ~alarm_triggered' /\ Hidden']_vars

\* set_alarm was called while the alarm rang: its playback is still alive
\* and the state is armed with the new target
C16_Witness ==
  /\ status \in {SetMsgToday, SetMsgTomorrow}
  /\ alarm_thread \in Alive
  /\ alarm_time # None /\ alarm_time > now /\ ~alarm_triggered /\ Hidden

\* C17: the clock loop never stops and never overlaps with itself: every
\* run of update_time schedules exactly one next run, so exactly one tick
\* is pending at any moment.
C17_OnePendingTick == pending = 1

\* the loop has run up to the last instant and its next tick is pending
C17_Witness ==
  /\ pending = 1 /\ ticked /\ \A t \in Instants : t <= now

\* C18: a tick that neither fires nor clears changes nothing: in idle, and
\* in armed when the hour:minute differs from the target's or the clock is
\* before the target, check_alarm leaves alarm_time, alarm_triggered, the
\* buttons and the playback threads as they were.
C18_QuietTick ==
  [][(/\ update_time
      /\ \/ alarm_time = None
         \/ /\ ~alarm_triggered
            /\ \/ hour(now) # hour(alarm_time)
               \/ minute(now) # minute(alarm_time)
               \/ now < alarm_time)
       => UNCHANGED <<alarm_time, alarm_triggered, alarm_thread,
                      snooze_button, stop_button, threads, status>>]_vars

\* a tick ran before the target, in another minute, and the alarm is as
\* set_alarm left it
C18_Witness ==
  /\ ticked /\ ~alarm_triggered /\ alarm_time # None /\ Hidden
  /\ now < alarm_time /\ minute(now) # minute(alarm_time)
  /\ status \in {SetMsgToday, SetMsgTomorrow} /\ Alive = {}

\* C19: an armed alarm whose minute passed without a tick at or after the
\* target is not cleared: a tick in another hour:minute leaves it armed
\* with the same alarm_time, and the first tick of a later occurrence of
\* the same hour:minute (the next day) fires it, at whatever second.
C19_SkippedAlarmStaysArmed ==
  [][/\ (update_time /\ alarm_time # None /\ ~alarm_triggered
           /\ now > alarm_time
           /\ (hour(now) # hour(alarm_time) \/ minute(now) # minute(alarm_time)))
          => (alarm_time' = alarm_time /\ ~alarm_triggered')
     /\ (update_time /\ alarm_time # None /\ ~alarm_triggered
           /\ date(now) > date(alarm_time)
           /\ hour(now) = hour(alarm_time) /\ minute(now) = minute(alarm_time))
          => (alarm_triggered' /\ alarm_time' = alarm_time
                /\ Cardinality(Started) = 1)]_vars

\* the target's minute passed without a tick in it; a tick ran in a later
\* minute and the alarm is still armed with the same target
C19_Witness ==
  /\ ~alarm_triggered /\ ticked /\ Hidden
  /\ alarm_time # None /\ now > alarm_time
  /\ minute(now) # minute(alarm_time)
  /\ status \in {SetMsgToday, SetMsgTomorrow, SnoozedMsg}

\* stop_alarm waits in its dialog and the dialog still holds the grab: no
\* button handler has run since Stop was pressed, only ticks, clock steps and
\* playback-thread steps
StopHoldsGrab == grab \in 1..Len(stack) /\ stack[grab].fn = "stop_alarm"

\* C20: stop_alarm opens its dialog before it resets the state, so ticks run
\* while the dialog is open.  While the dialog holds the grab the alarm is
\* either still ringing with its target and both buttons shown, or a tick has
\* self-cleared it to idle; no tick taken in that time starts a playback
\* thread; and whenever a stop_alarm call returns, alarm_time is None,
\* alarm_triggered is False and both buttons are hidden.
C20_StopDialogInterleaving ==
  /\ [](StopHoldsGrab =>
          \/ alarm_triggered /\ alarm_time # None /\ snooze_button /\ stop_button
          \/ alarm_time = None /\ ~alarm_triggered /\ Hidden)
  /\ [][/\ (update_time /\ StopHoldsGrab) => Started = {}
        /\ Returns("stop_alarm")
             => (alarm_time' = None /\ ~alarm_triggered' /\ Hidden')]_vars

\* a tick self-cleared the alarm while the stop dialog was still open
C20_Witness ==
  /\ StopHoldsGrab /\ stack[grab].open
  /\ alarm_time = None /\ ~alarm_triggered /\ Hidden
  /\ status = "" /\ ticked

====
